---- MODULE Spec2Model ----
(***************************************************************************)
(* A model of the markup pipeline: Lexer::scan_tokens (src/src/lexer.rs),  *)
(* Parser::parse (src/src/parser.rs), HtmlTransformer::transform           *)
(* (src/src/plugin.rs) and Display for Literal (src/src/ast.rs).           *)
(*                                                                         *)
(* A source is a sequence of characters (one-character strings; the byte   *)
(* 0 is written NUL).  Cursors are 0-based as in the Rust code: the byte   *)
(* at offset i of a buffer s is s[i + 1].                                   *)
(***************************************************************************)
EXTENDS Integers, Sequences, FiniteSets, TLC

VARIABLES source, lexCurrent, scanned, scanResult,
          tokens, current, stack, ret, result, output,
          discarded,  \* history: an error was dropped after the cursor moved
          shown,      \* the Literal handed to Display::fmt
          displayed,  \* what formatting it produced
          calls,      \* the number of parse calls made on the Parser value
          firstSource, firstResult  \* history: the first call and its return

lexVars == <<source, lexCurrent, scanned, scanResult>>
parseVars == <<tokens, current, stack, ret, result, output, discarded>>
fmtVars == <<shown, displayed>>
callVars == <<calls, firstSource, firstResult>>
vars == <<source, lexCurrent, scanned, scanResult,
          tokens, current, stack, ret, result, output, discarded,
          shown, displayed, calls, firstSource, firstResult>>

(***************************************************************************)
(* Bounds of the model.                                                    *)
(***************************************************************************)
MaxSrcLen == 4
MaxDigits == 10
MaxToks == 3
MaxFill == 4

\* u32::MAX = 4294967295 = U32MaxHi * Limb + U32MaxLo
Limb == 100000
U32MaxHi == 42949
U32MaxLo == 67295

(***************************************************************************)
(* Characters.                                                             *)
(***************************************************************************)
NUL == "NUL"
QUOTE == "\""
LF == "\n"

Digits == {"0", "1", "2", "3", "4", "5", "6", "7", "8", "9"}

Letters == {"a", "b", "c", "d", "e", "f", "g", "h", "i", "j", "k", "l", "m",
            "n", "o", "p", "q", "r", "s", "t", "u", "v", "w", "x", "y", "z",
            "A", "B", "C", "D", "E", "F", "G", "H", "I", "J", "K", "L", "M",
            "N", "O", "P", "Q", "R", "S", "T", "U", "V", "W", "X", "Y", "Z"}

Whitespace == {" ", "\t", "\n", "\r", "\f"}

\* char::is_numeric, char::is_alphabetic, char::is_whitespace on ASCII
IsNumeric(c) == c \in Digits
IsAlphabeticChar(c) == c \in Letters
IsWhitespace(c) == c \in Whitespace

\* lexer.rs is_alphabetic: the characters that continue an identifier
is_alphabetic(c) == IsAlphabeticChar(c) \/ c = "_" \/ c = "-" \/ IsNumeric(c)

DigitVal(c) ==
    CASE c = "0" -> 0 [] c = "1" -> 1 [] c = "2" -> 2 [] c = "3" -> 3
      [] c = "4" -> 4 [] c = "5" -> 5 [] c = "6" -> 6 [] c = "7" -> 7
      [] c = "8" -> 8 [] c = "9" -> 9

(***************************************************************************)
(* Tokens (lexer.rs Token) and lexing errors (lexer.rs LexingError).       *)
(***************************************************************************)
Tok(t) == [type |-> t]
Identifier(s) == [type |-> "Identifier", text |-> s]
StringTok(s) == [type |-> "String", text |-> s]
NumberTok(n) == [type |-> "Number", num |-> n]
EOF == Tok("EOF")

UnrecognizedCharacter(c, p) ==
    [kind |-> "UnrecognizedCharacter", character |-> c, position |-> p]
UnclosedStringLiteral(s, e) ==
    [kind |-> "UnclosedStringLiteral", start |-> s, end |-> e]

(***************************************************************************)
(* The lexer's helpers.  cur is Lexer.current.                             *)
(***************************************************************************)
At(src, i) == src[i + 1]

is_at_end(src, cur) == cur >= Len(src)

peek(src, cur) == IF is_at_end(src, cur) THEN NUL ELSE At(src, cur)

\* advance: the character read and the cursor after it
advance(src, cur) ==
    IF is_at_end(src, cur)
    THEN [c |-> NUL, cur |-> cur]
    ELSE [c |-> At(src, cur), cur |-> cur + 1]

\* match_char: whether the character matched and the cursor after it
match_char(src, cur, c) ==
    IF is_at_end(src, cur) \/ peek(src, cur) # c
    THEN [matched |-> FALSE, cur |-> cur]
    ELSE [matched |-> TRUE, cur |-> cur + 1]

RECURSIVE skip_whitespace(_, _)
skip_whitespace(src, cur) ==
    IF ~is_at_end(src, cur) /\ IsWhitespace(peek(src, cur))
    THEN skip_whitespace(src, advance(src, cur).cur)
    ELSE cur

\* the loop of string(): advance until the closing quote or the end
RECURSIVE StringEnd(_, _)
StringEnd(src, cur) ==
    IF ~is_at_end(src, cur) /\ peek(src, cur) # QUOTE
    THEN StringEnd(src, advance(src, cur).cur)
    ELSE cur

\* the loop of identifier()
RECURSIVE IdentifierEnd(_, _)
IdentifierEnd(src, cur) ==
    IF is_alphabetic(peek(src, cur))
    THEN IdentifierEnd(src, advance(src, cur).cur)
    ELSE cur

\* the loop of number()
RECURSIVE NumberEnd(_, _)
NumberEnd(src, cur) ==
    IF IsNumeric(peek(src, cur))
    THEN NumberEnd(src, advance(src, cur).cur)
    ELSE cur

\* the slice source[from..to] of the Rust code (0-based, to exclusive)
Slice(src, from, to) == SubSeq(src, from + 1, to)

\* A u32 is written as two decimal limbs, hi * Limb + lo with lo < Limb, so
\* that every value up to u32::MAX = 4294967295 and the products that
\* overflow it stay within the integers TLC computes with.
U32(hi, lo) == [hi |-> hi, lo |-> lo]
Carry(hi, lo) == U32(hi + (lo \div Limb), lo % Limb)
FitsU32(v) == v.hi < U32MaxHi \/ (v.hi = U32MaxHi /\ v.lo <= U32MaxLo)
Small(n) == U32(0, n)

\* u32::checked_mul(10) and u32::checked_add(d)
checked_mul10(v) ==
    LET r == Carry(v.hi * 10, v.lo * 10)
    IN  IF FitsU32(r) THEN [some |-> TRUE, val |-> r] ELSE [some |-> FALSE]

checked_add(v, d) ==
    LET r == Carry(v.hi, v.lo + d)
    IN  IF FitsU32(r) THEN [some |-> TRUE, val |-> r] ELSE [some |-> FALSE]

\* str::parse::<u32> on a run of digits: checked multiply and add, digit by
\* digit
RECURSIVE ParseU32From(_, _, _)
ParseU32From(digs, i, acc) ==
    IF i > Len(digs) THEN [some |-> TRUE, val |-> acc]
    ELSE LET mul == checked_mul10(acc)
         IN  IF ~mul.some THEN [some |-> FALSE]
             ELSE LET add == checked_add(mul.val, DigitVal(digs[i]))
                  IN  IF ~add.some THEN [some |-> FALSE]
                      ELSE ParseU32From(digs, i + 1, add.val)

ParseU32(digs) ==
    IF Len(digs) = 0 THEN [some |-> FALSE] ELSE ParseU32From(digs, 1, Small(0))

LexOk(t, cur) == [kind |-> "ok", tok |-> t, cur |-> cur]
LexErr(e, cur) == [kind |-> "err", err |-> e, cur |-> cur]
LexPanic(cur) == [kind |-> "panic", cur |-> cur]

\* string() reporting the cursor past the quote as the start of the literal
string_StartPastQuote(src, cur) ==
    LET start == cur
        stop == StringEnd(src, cur)
    IN  IF is_at_end(src, stop)
        THEN LexErr(UnclosedStringLiteral(start, stop), stop)
        ELSE LexOk(StringTok(Slice(src, start, stop)), advance(src, stop).cur)

\* string(), entered with the cursor just past the opening quote
string(src, cur) ==
    LET start == cur
        stop == StringEnd(src, cur)
    IN  IF is_at_end(src, stop)
        THEN LexErr(UnclosedStringLiteral(start - 1, stop), stop)
        ELSE LexOk(StringTok(Slice(src, start, stop)), advance(src, stop).cur)

\* identifier(), entered with the cursor just past the first character
identifier(src, cur) ==
    LET start == cur - 1
        stop == IdentifierEnd(src, cur)
    IN  LexOk(Identifier(Slice(src, start, stop)), stop)

\* number(), entered with the cursor just past the first digit
number(src, cur) ==
    LET start == cur - 1
        stop == NumberEnd(src, cur)
        num == ParseU32(Slice(src, start, stop))
    IN  IF num.some THEN LexOk(NumberTok(num.val), stop) ELSE LexPanic(stop)

\* scan_token at cursor cur0
scan_token(src, cur0) ==
    LET a == advance(src, cur0)
        c == a.c
        cur == a.cur
    IN  CASE c = "(" -> LexOk(Tok("LeftParen"), cur)
          [] c = ")" -> LexOk(Tok("RightParen"), cur)
          [] c = "[" -> LexOk(Tok("LeftBracket"), cur)
          [] c = "]" -> LexOk(Tok("RightBracket"), cur)
          [] c = "{" -> LexOk(Tok("LeftBrace"), cur)
          [] c = "}" -> LexOk(Tok("RightBrace"), cur)
          [] c = "," -> LexOk(Tok("Comma"), cur)
          [] c = "." -> LET m == match_char(src, cur, ".")
                        IN  IF m.matched THEN LexOk(Tok("DoubleDot"), m.cur)
                            ELSE LexOk(Tok("Dot"), m.cur)
          [] c = ":" -> LexOk(Tok("Colon"), cur)
          [] c = NUL -> LexOk(EOF, cur)
          [] c = QUOTE -> string(src, cur)
          [] OTHER -> IF IsNumeric(c) THEN number(src, cur)
                      ELSE IF IsAlphabeticChar(c) THEN identifier(src, cur)
                      ELSE LexErr(UnrecognizedCharacter(c, cur), cur)

\* one iteration of the loop of scan_tokens: skip_whitespace, then scan_token
ScanIteration(src, cur) == scan_token(src, skip_whitespace(src, cur))

Last(s) == s[Len(s)]

\* the tail of scan_tokens: a final EOF unless the last token is one already
WithEOF(toks) ==
    IF Len(toks) = 0 \/ Last(toks) # EOF THEN Append(toks, EOF) ELSE toks

(***************************************************************************)
(* The lexer's actions: the loop of scan_tokens.                           *)
(***************************************************************************)
Running == [status |-> "running"]

\* an iteration whose scan_token returns Ok: the token is pushed
ScanPush ==
    /\ scanResult = Running
    /\ ~is_at_end(source, lexCurrent)
    /\ LET r == ScanIteration(source, lexCurrent)
       IN  /\ r.kind = "ok"
           /\ scanned' = Append(scanned, r.tok)
           /\ lexCurrent' = r.cur
    /\ UNCHANGED <<source, scanResult>>
    /\ UNCHANGED <<parseVars, fmtVars, callVars>>

\* an iteration whose scan_token returns Err: scan_tokens returns it
ScanFail ==
    /\ scanResult = Running
    /\ ~is_at_end(source, lexCurrent)
    /\ LET r == ScanIteration(source, lexCurrent)
       IN  /\ r.kind = "err"
           /\ scanResult' = [status |-> "err", err |-> r.err]
           /\ lexCurrent' = r.cur
    /\ UNCHANGED <<source, scanned>>
    /\ UNCHANGED <<parseVars, fmtVars, callVars>>

\* an iteration in which number() panics on a digit run that is no u32
ScanPanic ==
    /\ scanResult = Running
    /\ ~is_at_end(source, lexCurrent)
    /\ LET r == ScanIteration(source, lexCurrent)
       IN  /\ r.kind = "panic"
           /\ scanResult' = [status |-> "panic"]
           /\ lexCurrent' = r.cur
    /\ UNCHANGED <<source, scanned>>
    /\ UNCHANGED <<parseVars, fmtVars, callVars>>

\* the loop ends: scan_tokens returns the tokens, closed by EOF
ScanFinish ==
    /\ scanResult = Running
    /\ is_at_end(source, lexCurrent)
    /\ scanResult' = [status |-> "ok", tokens |-> WithEOF(scanned)]
    /\ UNCHANGED <<source, lexCurrent, scanned>>
    /\ UNCHANGED <<parseVars, fmtVars, callVars>>

NextLex == ScanPush \/ ScanFail \/ ScanPanic \/ ScanFinish

(***************************************************************************)
(* The AST (ast.rs) and the parser's errors (parser.rs ParsingError).      *)
(***************************************************************************)
NodeString(s) == [node |-> "String", text |-> s]
NodeTag(name, attributes, children) ==
    [node |-> "Tag", name |-> name, attributes |-> attributes,
     children |-> children]
Attribute(name, value) == [name |-> name, value |-> value]

LitNumber(n) == [lit |-> "Number", num |-> n]
LitString(s) == [lit |-> "String", text |-> s]
LitList(items) == [lit |-> "List", items |-> items]
None == [some |-> FALSE]
Some(v) == [some |-> TRUE, val |-> v]
LitRange(start, end) == [lit |-> "Range", start |-> start, end |-> end]

UnexpectedToken(at) == [kind |-> "UnexpectedToken", at |-> at]
ExpectedToken(at, expected, got) ==
    [kind |-> "ExpectedToken", at |-> at, expected |-> expected, got |-> got]
\* #[from] LexingError
FromLexingError(e) == [kind |-> "LexingError", err |-> e]

(***************************************************************************)
(* The straight-line parts of the parser, as functions of Parser.tokens    *)
(* (toks) and Parser.current (cur).  Each yields an outcome:               *)
(*   ok    - the value built and the cursor after it                       *)
(*   err   - the error returned and the cursor where it was raised         *)
(*   call  - the production to descend into and the cursor at the call     *)
(*   panic - an index past the end of tokens                               *)
(***************************************************************************)
POk(v, cur) == [kind |-> "ok", val |-> v, cur |-> cur]
PErr(e, cur) == [kind |-> "err", err |-> e, cur |-> cur]
PCall(fn, name, cur) == [kind |-> "call", fn |-> fn, name |-> name, cur |-> cur]
PPanic == [kind |-> "panic"]

\* tokens[i] is in bounds
InBounds(toks, i) == i >= 0 /\ i < Len(toks)
TokenAt(toks, i) == toks[i + 1]

\* consume() moving past the token at the cursor whatever it is
consume_Unchecked(toks, cur, token) ==
    IF ~InBounds(toks, cur) THEN PPanic
    ELSE POk(token, cur + 1)

consume(toks, cur, token) ==
    IF ~InBounds(toks, cur) THEN PPanic
    ELSE IF TokenAt(toks, cur) = token THEN POk(token, cur + 1)
    ELSE PErr(ExpectedToken(cur, token, TokenAt(toks, cur)), cur)

\* peek_next() == Token::DoubleDot, with the index check of tokens[current + 1]
PeekNextIsDoubleDot(toks, cur) ==
    IF ~InBounds(toks, cur + 1) THEN PPanic
    ELSE POk(TokenAt(toks, cur + 1) = Tok("DoubleDot"), cur)

\* range() moving past the token after '..' whatever it is
range_ConsumesAfterDots(toks, cur) ==
    IF ~InBounds(toks, cur) THEN PPanic
    ELSE IF TokenAt(toks, cur).type # "Number"
    THEN PErr(UnexpectedToken(cur), cur)
    ELSE LET start == TokenAt(toks, cur).num
             dd == consume(toks, cur + 1, Tok("DoubleDot"))
         IN  IF dd.kind # "ok" THEN dd
             ELSE IF ~InBounds(toks, dd.cur) THEN PPanic
             ELSE IF TokenAt(toks, dd.cur).type = "Number"
             THEN POk(LitRange(start, Some(TokenAt(toks, dd.cur).num)),
                      dd.cur + 1)
             ELSE POk(LitRange(start, None), dd.cur + 1)

range(toks, cur) ==
    IF ~InBounds(toks, cur) THEN PPanic
    ELSE IF TokenAt(toks, cur).type # "Number"
    THEN PErr(UnexpectedToken(cur), cur)
    ELSE LET start == TokenAt(toks, cur).num
             dd == consume(toks, cur + 1, Tok("DoubleDot"))
         IN  IF dd.kind # "ok" THEN dd
             ELSE IF ~InBounds(toks, dd.cur) THEN PPanic
             ELSE IF TokenAt(toks, dd.cur).type = "Number"
             THEN POk(LitRange(start, Some(TokenAt(toks, dd.cur).num)),
                      dd.cur + 1)
             ELSE POk(LitRange(start, None), dd.cur)

\* the match of literal() and of attribute(): the value at the cursor
LiteralValue(toks, cur) ==
    IF ~InBounds(toks, cur) THEN PPanic
    ELSE LET t == TokenAt(toks, cur)
         IN  CASE t.type = "Number" ->
                    LET pk == PeekNextIsDoubleDot(toks, cur)
                    IN  IF pk.kind = "panic" THEN PPanic
                        ELSE IF pk.val THEN range(toks, cur)
                        ELSE POk(LitNumber(t.num), cur + 1)
               [] t.type = "String" -> POk(LitString(t.text), cur + 1)
               [] t.type = "LeftBracket" -> PCall("list", <<>>, cur)
               [] OTHER -> PErr(UnexpectedToken(cur), cur)

literal(toks, cur) == LiteralValue(toks, cur)

\* attribute() up to its value
attribute(toks, cur) ==
    IF ~InBounds(toks, cur) THEN PPanic
    ELSE IF TokenAt(toks, cur).type # "Identifier"
    THEN PErr(UnexpectedToken(cur), cur)
    ELSE LET name == TokenAt(toks, cur).text
             colon == consume(toks, cur + 1, Tok("Colon"))
         IN  IF colon.kind # "ok" THEN colon
             ELSE LET v == LiteralValue(toks, colon.cur)
                  IN  CASE v.kind = "ok" -> POk(Attribute(name, v.val), v.cur)
                        [] v.kind = "call" -> PCall("list", name, v.cur)
                        [] OTHER -> v

(***************************************************************************)
(* The call stack of the recursive descent.  A frame is one activation of  *)
(* a production: fn the production, pc the place in it, name / attrs /     *)
(* items its locals, entry the cursor at its call.  ret is the value a     *)
(* production has just returned to the frame now on top.                   *)
(***************************************************************************)
Frame(fn, entry) ==
    [fn |-> fn, pc |-> "begin", name |-> <<>>, attrs |-> <<>>, items |-> <<>>,
     entry |-> entry]

NoRet == [kind |-> "none"]
RetOk(v, entry) == [kind |-> "ok", val |-> v, entry |-> entry]
RetErr(e, entry) == [kind |-> "err", err |-> e, entry |-> entry]

NoResult == [status |-> "none"]
Panicked == [status |-> "panic"]
NoOutput == [status |-> "none"]

Top == stack[Len(stack)]
Pop == SubSeq(stack, 1, Len(stack) - 1)
SetTop(f) == [stack EXCEPT ![Len(stack)] = f]
Call(caller, callee) == Append(SetTop(caller), callee)

\* the parser is inside production fn at place pc, with nothing returned to it
AtPc(fn, pc) ==
    /\ result = NoResult
    /\ stack # <<>>
    /\ Top.fn = fn
    /\ Top.pc = pc
    /\ ret = NoRet

\* a callee has returned to production fn, which waits at place pc
Returned(fn, pc) ==
    /\ result = NoResult
    /\ stack # <<>>
    /\ Top.fn = fn
    /\ Top.pc = pc
    /\ ret # NoRet

\* the production on top returns r to its caller
Return(r) ==
    /\ stack' = Pop
    /\ ret' = r

\* an index past the end of tokens: the thread panics where it stands
Panic ==
    /\ result' = Panicked
    /\ UNCHANGED <<tokens, current, stack, ret, output>>

(***************************************************************************)
(* Parser::parse.                                                          *)
(***************************************************************************)
\* parse: scan_tokens returned Ok; self.tokens is assigned, the loop begins.
\* self.current is left as it is.
ParseBegin ==
    /\ scanResult.status = "ok"
    /\ result = NoResult
    /\ stack = <<>>
    /\ tokens' = scanResult.tokens
    /\ stack' = <<Frame("parse", current)>>
    /\ UNCHANGED <<current, ret, result, output>>
    /\ UNCHANGED <<discarded, lexVars, fmtVars, callVars>>

\* parse: scan_tokens returned Err; `?` converts and returns it
ParseLexErr ==
    /\ scanResult.status = "err"
    /\ result = NoResult
    /\ stack = <<>>
    /\ result' = [status |-> "err", err |-> FromLexingError(scanResult.err)]
    /\ UNCHANGED <<tokens, current, stack, ret, output>>
    /\ UNCHANGED <<discarded, lexVars, fmtVars, callVars>>

\* parse: the test of the top-level loop, then the call of node() or Ok(nodes)
ParseLoop ==
    /\ AtPc("parse", "begin")
    /\ IF ~InBounds(tokens, current) THEN Panic
       ELSE IF TokenAt(tokens, current) = EOF
       THEN /\ result' = [status |-> "ok", nodes |-> Top.items]
            /\ stack' = Pop
            /\ UNCHANGED <<tokens, current, ret, output>>
       ELSE /\ stack' = Call([Top EXCEPT !.pc = "node"], Frame("node", current))
            /\ UNCHANGED <<tokens, current, ret, result, output>>
    /\ UNCHANGED <<discarded, lexVars, fmtVars, callVars>>

\* parse: nodes.push(self.node()?)
ParseNodeRet ==
    /\ Returned("parse", "node")
    /\ IF ret.kind = "ok"
       THEN /\ stack' = SetTop([Top EXCEPT !.pc = "begin",
                                           !.items = Append(@, ret.val)])
            /\ UNCHANGED result
       ELSE /\ result' = [status |-> "err", err |-> ret.err]
            /\ stack' = Pop
    /\ ret' = NoRet
    /\ UNCHANGED <<tokens, current, output>>
    /\ UNCHANGED <<discarded, lexVars, fmtVars, callVars>>

(***************************************************************************)
(* Parser::node and Parser::tag.                                           *)
(***************************************************************************)
\* node: a string node, the tail call of tag(), or UnexpectedToken
Node ==
    /\ AtPc("node", "begin")
    /\ IF ~InBounds(tokens, current) THEN Panic
       ELSE LET t == TokenAt(tokens, current)
            IN  CASE t.type = "String" ->
                       /\ current' = current + 1
                       /\ Return(RetOk(NodeString(t.text), Top.entry))
                       /\ UNCHANGED <<tokens, result, output>>
                  [] t.type = "Identifier" ->
                       /\ stack' = SetTop(Frame("tag", Top.entry))
                       /\ UNCHANGED <<tokens, current, ret, result, output>>
                  [] OTHER ->
                       /\ Return(RetErr(UnexpectedToken(current), Top.entry))
                       /\ UNCHANGED <<tokens, current, result, output>>
    /\ UNCHANGED <<discarded, lexVars, fmtVars, callVars>>

\* tag: the name, then the call of attributes() when '(' follows
TagBegin ==
    /\ AtPc("tag", "begin")
    /\ IF ~InBounds(tokens, current) THEN Panic
       ELSE IF TokenAt(tokens, current).type # "Identifier"
       THEN /\ Return(RetErr(UnexpectedToken(current), Top.entry))
            /\ UNCHANGED <<tokens, current, result, output>>
       ELSE IF ~InBounds(tokens, current + 1)
       THEN /\ current' = current + 1
            /\ result' = Panicked
            /\ UNCHANGED <<tokens, stack, ret, output>>
       ELSE LET named == [Top EXCEPT !.name = TokenAt(tokens, current).text]
            IN  /\ current' = current + 1
                /\ IF TokenAt(tokens, current + 1) = Tok("LeftParen")
                   THEN stack' = Call([named EXCEPT !.pc = "attributes"],
                                      Frame("attributes", current + 1))
                   ELSE stack' = SetTop([named EXCEPT !.pc = "brace"])
                /\ UNCHANGED <<tokens, ret, result, output>>
    /\ UNCHANGED <<discarded, lexVars, fmtVars, callVars>>

\* tag: node.attributes = self.attributes()?
TagAttributesRet ==
    /\ Returned("tag", "attributes")
    /\ IF ret.kind = "ok"
       THEN /\ stack' = SetTop([Top EXCEPT !.pc = "brace", !.attrs = ret.val])
            /\ ret' = NoRet
       ELSE Return(RetErr(ret.err, Top.entry))
    /\ UNCHANGED <<tokens, current, result, output>>
    /\ UNCHANGED <<discarded, lexVars, fmtVars, callVars>>

\* tag: self.consume(Token::LeftBrace)?
TagBrace ==
    /\ AtPc("tag", "brace")
    /\ LET c == consume(tokens, current, Tok("LeftBrace"))
       IN  CASE c.kind = "panic" -> Panic
             [] c.kind = "ok" ->
                  /\ current' = c.cur
                  /\ stack' = SetTop([Top EXCEPT !.pc = "children"])
                  /\ UNCHANGED <<tokens, ret, result, output>>
             [] OTHER ->
                  /\ Return(RetErr(c.err, Top.entry))
                  /\ UNCHANGED <<tokens, current, result, output>>
    /\ UNCHANGED <<discarded, lexVars, fmtVars, callVars>>

\* tag: the test of the children loop, then the call of node(), or
\* consume(Token::RightBrace)? and Ok(Node::Tag(node))
TagChildren ==
    /\ AtPc("tag", "children")
    /\ IF ~InBounds(tokens, current) THEN Panic
       ELSE IF TokenAt(tokens, current) # Tok("RightBrace")
       THEN /\ stack' = Call([Top EXCEPT !.pc = "child"], Frame("node", current))
            /\ UNCHANGED <<tokens, current, ret, result, output>>
       ELSE LET c == consume(tokens, current, Tok("RightBrace"))
            IN  /\ current' = c.cur
                /\ Return(RetOk(NodeTag(Top.name, Top.attrs, Top.items),
                                Top.entry))
                /\ UNCHANGED <<tokens, result, output>>
    /\ UNCHANGED <<discarded, lexVars, fmtVars, callVars>>

\* tag putting each child before the ones it already holds
TagChildRet_Prepend ==
    /\ Returned("tag", "child")
    /\ IF ret.kind = "ok"
       THEN /\ stack' = SetTop([Top EXCEPT !.pc = "children",
                                           !.items = <<ret.val>> \o @])
            /\ ret' = NoRet
       ELSE Return(RetErr(ret.err, Top.entry))
    /\ UNCHANGED <<tokens, current, result, output>>
    /\ UNCHANGED <<discarded, lexVars, fmtVars, callVars>>

\* tag: node.children.push(self.node()?)
TagChildRet ==
    /\ Returned("tag", "child")
    /\ IF ret.kind = "ok"
       THEN /\ stack' = SetTop([Top EXCEPT !.pc = "children",
                                           !.items = Append(@, ret.val)])
            /\ ret' = NoRet
       ELSE Return(RetErr(ret.err, Top.entry))
    /\ UNCHANGED <<tokens, current, result, output>>
    /\ UNCHANGED <<discarded, lexVars, fmtVars, callVars>>

(***************************************************************************)
(* Parser::attributes and Parser::attribute.                               *)
(***************************************************************************)
\* attributes: consume(Token::LeftParen)?, then the call of the first
\* attribute()
AttributesBegin ==
    /\ AtPc("attributes", "begin")
    /\ LET c == consume(tokens, current, Tok("LeftParen"))
       IN  CASE c.kind = "panic" -> Panic
             [] c.kind = "ok" ->
                  /\ current' = c.cur
                  /\ stack' = Call([Top EXCEPT !.pc = "first"],
                                   Frame("attribute", c.cur))
                  /\ UNCHANGED <<tokens, ret, result, output>>
             [] OTHER ->
                  /\ Return(RetErr(c.err, Top.entry))
                  /\ UNCHANGED <<tokens, current, result, output>>
    /\ UNCHANGED <<discarded, lexVars, fmtVars, callVars>>

\* attributes: if let Ok(attr) = self.attribute() { attrs.push(attr) }
AttributesFirstRet ==
    /\ Returned("attributes", "first")
    /\ IF ret.kind = "ok"
       THEN stack' = SetTop([Top EXCEPT !.pc = "loop",
                                        !.items = Append(@, ret.val)])
       ELSE stack' = SetTop([Top EXCEPT !.pc = "loop"])
    /\ ret' = NoRet
    /\ UNCHANGED <<tokens, current, result, output>>
    /\ discarded' =
           (discarded \/ (ret.kind = "err" /\ current > ret.entry))
    /\ UNCHANGED <<lexVars, fmtVars, callVars>>

\* attributes: the test of the comma loop, then the call of attribute(), or
\* consume(Token::RightParen)? and Ok(attrs)
AttributesLoop ==
    /\ AtPc("attributes", "loop")
    /\ IF ~InBounds(tokens, current) THEN Panic
       ELSE IF TokenAt(tokens, current) = Tok("Comma")
       THEN /\ current' = current + 1
            /\ stack' = Call([Top EXCEPT !.pc = "rest"],
                             Frame("attribute", current + 1))
            /\ UNCHANGED <<tokens, ret, result, output>>
       ELSE LET c == consume(tokens, current, Tok("RightParen"))
            IN  IF c.kind = "ok"
                THEN /\ current' = c.cur
                     /\ Return(RetOk(Top.items, Top.entry))
                     /\ UNCHANGED <<tokens, result, output>>
                ELSE /\ Return(RetErr(c.err, Top.entry))
                     /\ UNCHANGED <<tokens, current, result, output>>
    /\ UNCHANGED <<discarded, lexVars, fmtVars, callVars>>

\* attributes: attrs.push(self.attribute()?)
AttributesRestRet ==
    /\ Returned("attributes", "rest")
    /\ IF ret.kind = "ok"
       THEN /\ stack' = SetTop([Top EXCEPT !.pc = "loop",
                                           !.items = Append(@, ret.val)])
            /\ ret' = NoRet
       ELSE Return(RetErr(ret.err, Top.entry))
    /\ UNCHANGED <<tokens, current, result, output>>
    /\ UNCHANGED <<discarded, lexVars, fmtVars, callVars>>

\* attribute: the name, the colon and the value, or the call of list()
AttributeBegin ==
    /\ AtPc("attribute", "begin")
    /\ LET a == attribute(tokens, current)
       IN  CASE a.kind = "panic" -> Panic
             [] a.kind = "ok" ->
                  /\ current' = a.cur
                  /\ Return(RetOk(a.val, Top.entry))
                  /\ UNCHANGED <<tokens, result, output>>
             [] a.kind = "err" ->
                  /\ current' = a.cur
                  /\ Return(RetErr(a.err, Top.entry))
                  /\ UNCHANGED <<tokens, result, output>>
             [] a.kind = "call" ->
                  /\ current' = a.cur
                  /\ stack' = Call([Top EXCEPT !.pc = "list", !.name = a.name],
                                   Frame("list", a.cur))
                  /\ UNCHANGED <<tokens, ret, result, output>>
    /\ UNCHANGED <<discarded, lexVars, fmtVars, callVars>>

\* attribute: Ok(Attribute { name, value: self.list()? })
AttributeListRet ==
    /\ Returned("attribute", "list")
    /\ IF ret.kind = "ok"
       THEN Return(RetOk(Attribute(Top.name, ret.val), Top.entry))
       ELSE Return(RetErr(ret.err, Top.entry))
    /\ UNCHANGED <<tokens, current, result, output>>
    /\ UNCHANGED <<discarded, lexVars, fmtVars, callVars>>

(***************************************************************************)
(* Parser::list and Parser::literal.                                       *)
(***************************************************************************)
\* list: consume(Token::LeftBracket)?, then the call of the first literal()
ListBegin ==
    /\ AtPc("list", "begin")
    /\ LET c == consume(tokens, current, Tok("LeftBracket"))
       IN  CASE c.kind = "panic" -> Panic
             [] c.kind = "ok" ->
                  /\ current' = c.cur
                  /\ stack' = Call([Top EXCEPT !.pc = "first"],
                                   Frame("literal", c.cur))
                  /\ UNCHANGED <<tokens, ret, result, output>>
             [] OTHER ->
                  /\ Return(RetErr(c.err, Top.entry))
                  /\ UNCHANGED <<tokens, current, result, output>>
    /\ UNCHANGED <<discarded, lexVars, fmtVars, callVars>>

\* list: if let Ok(l) = self.literal() { items.push(l) }
ListFirstRet ==
    /\ Returned("list", "first")
    /\ IF ret.kind = "ok"
       THEN stack' = SetTop([Top EXCEPT !.pc = "loop",
                                        !.items = Append(@, ret.val)])
       ELSE stack' = SetTop([Top EXCEPT !.pc = "loop"])
    /\ ret' = NoRet
    /\ UNCHANGED <<tokens, current, result, output>>
    /\ discarded' =
           (discarded \/ (ret.kind = "err" /\ current > ret.entry))
    /\ UNCHANGED <<lexVars, fmtVars, callVars>>

\* list: the test of the comma loop, then the call of literal(), or
\* consume(Token::RightBracket)? and Ok(Literal::List(items))
ListLoop ==
    /\ AtPc("list", "loop")
    /\ IF ~InBounds(tokens, current) THEN Panic
       ELSE IF TokenAt(tokens, current) = Tok("Comma")
       THEN /\ current' = current + 1
            /\ stack' = Call([Top EXCEPT !.pc = "rest"],
                             Frame("literal", current + 1))
            /\ UNCHANGED <<tokens, ret, result, output>>
       ELSE LET c == consume(tokens, current, Tok("RightBracket"))
            IN  IF c.kind = "ok"
                THEN /\ current' = c.cur
                     /\ Return(RetOk(LitList(Top.items), Top.entry))
                     /\ UNCHANGED <<tokens, result, output>>
                ELSE /\ Return(RetErr(c.err, Top.entry))
                     /\ UNCHANGED <<tokens, current, result, output>>
    /\ UNCHANGED <<discarded, lexVars, fmtVars, callVars>>

\* list: items.push(self.literal()?)
ListRestRet ==
    /\ Returned("list", "rest")
    /\ IF ret.kind = "ok"
       THEN /\ stack' = SetTop([Top EXCEPT !.pc = "loop",
                                           !.items = Append(@, ret.val)])
            /\ ret' = NoRet
       ELSE Return(RetErr(ret.err, Top.entry))
    /\ UNCHANGED <<tokens, current, result, output>>
    /\ UNCHANGED <<discarded, lexVars, fmtVars, callVars>>

\* literal: a number, a range, a string, the tail call of list(), or
\* UnexpectedToken
Literal ==
    /\ AtPc("literal", "begin")
    /\ LET l == literal(tokens, current)
       IN  CASE l.kind = "panic" -> Panic
             [] l.kind = "ok" ->
                  /\ current' = l.cur
                  /\ Return(RetOk(l.val, Top.entry))
                  /\ UNCHANGED <<tokens, result, output>>
             [] l.kind = "err" ->
                  /\ current' = l.cur
                  /\ Return(RetErr(l.err, Top.entry))
                  /\ UNCHANGED <<tokens, result, output>>
             [] l.kind = "call" ->
                  /\ stack' = SetTop(Frame("list", Top.entry))
                  /\ UNCHANGED <<tokens, current, ret, result, output>>
    /\ UNCHANGED <<discarded, lexVars, fmtVars, callVars>>

(***************************************************************************)
(* HtmlTransformer::transform (plugin.rs) and textwrap::dedent.            *)
(***************************************************************************)
RECURSIVE Concat(_)
Concat(ss) == IF ss = <<>> THEN <<>> ELSE Head(ss) \o Concat(Tail(ss))

\* str::lines: split at "\n", a "\r" before it dropped; no line after a
\* final "\n"
RECURSIVE LinesFrom(_, _, _)
LinesFrom(s, i, line) ==
    IF i > Len(s) THEN (IF line = <<>> THEN <<>> ELSE <<line>>)
    ELSE IF s[i] = LF
    THEN LET l == IF line # <<>> /\ Last(line) = "\r"
                  THEN SubSeq(line, 1, Len(line) - 1) ELSE line
         IN  <<l>> \o LinesFrom(s, i + 1, <<>>)
    ELSE LinesFrom(s, i + 1, Append(line, s[i]))

Lines(s) == LinesFrom(s, 1, <<>>)

\* the offset of the first character of line that is no whitespace, or its
\* length
FirstNonWhitespace(line) ==
    LET idx == {i \in 1..Len(line) : ~IsWhitespace(line[i])}
    IN  IF idx = {} THEN Len(line)
        ELSE (CHOOSE i \in idx : \A j \in idx : i <= j) - 1

\* the offset of the first character of line that differs from prefix, or the
\* length of line
FirstMismatch(line, prefix) ==
    LET n == IF Len(line) < Len(prefix) THEN Len(line) ELSE Len(prefix)
        idx == {i \in 1..n : line[i] # prefix[i]}
    IN  IF idx = {} THEN Len(line)
        ELSE (CHOOSE i \in idx : \A j \in idx : i <= j) - 1

\* dedent's two loops over the lines: the common leading whitespace
RECURSIVE DedentPrefix(_, _, _, _)
DedentPrefix(ls, i, found, prefix) ==
    IF i > Len(ls) THEN prefix
    ELSE IF ~found
    THEN LET w == FirstNonWhitespace(ls[i])
         IN  IF w < Len(ls[i])
             THEN DedentPrefix(ls, i + 1, TRUE, SubSeq(ls[i], 1, w))
             ELSE DedentPrefix(ls, i + 1, FALSE, prefix)
    ELSE LET w == FirstMismatch(ls[i], prefix)
         IN  IF w < Len(ls[i]) /\ w < Len(prefix)
             THEN DedentPrefix(ls, i + 1, TRUE, SubSeq(ls[i], 1, w))
             ELSE DedentPrefix(ls, i + 1, TRUE, prefix)

StartsWith(line, prefix) ==
    /\ Len(prefix) <= Len(line)
    /\ SubSeq(line, 1, Len(prefix)) = prefix

\* dedent's last loop: each line without the prefix, blank lines emptied
RECURSIVE DedentLines(_, _, _)
DedentLines(ls, i, prefix) ==
    IF i > Len(ls) THEN <<>>
    ELSE LET line == ls[i]
             kept == IF /\ StartsWith(line, prefix)
                        /\ \E k \in 1..Len(line) : ~IsWhitespace(line[k])
                     THEN SubSeq(line, Len(prefix) + 1, Len(line))
                     ELSE <<>>
         IN  kept \o <<LF>> \o DedentLines(ls, i + 1, prefix)

dedent(s) ==
    LET ls == Lines(s)
        prefix == DedentPrefix(ls, 1, FALSE, <<>>)
        res == DedentLines(ls, 1, prefix)
    IN  IF res # <<>> /\ Last(res) = LF /\ ~(s # <<>> /\ Last(s) = LF)
        THEN SubSeq(res, 1, Len(res) - 1)
        ELSE res

CodeBlock == <<"c", "o", "d", "e", "-", "b", "l", "o", "c", "k">>
PreOpen == <<"<", "p", "r", "e", ">">>
CodeOpen == <<"<", "c", "o", "d", "e", ">">>
CodeClose == <<"<", "/", "c", "o", "d", "e", ">", "<", "/", "p", "r", "e", ">">>

Rendered(s) == [panic |-> FALSE, s |-> s]
RenderPanic == [panic |-> TRUE]

RECURSIVE transform(_)
RECURSIVE transform_node(_)
\* HtmlTransformer::transform: the renderings of the nodes, concatenated
transform(ast) ==
    LET parts == [i \in 1..Len(ast) |-> transform_node(ast[i])]
    IN  IF \E i \in 1..Len(ast) : parts[i].panic THEN RenderPanic
        ELSE Rendered(Concat([i \in 1..Len(ast) |-> parts[i].s]))

transform_node(node) ==
    IF node.node = "String" THEN Rendered(node.text)
    ELSE IF node.name = CodeBlock
    THEN LET inner == transform(node.children)
         IN  IF inner.panic THEN RenderPanic
             ELSE Rendered(PreOpen \o CodeOpen \o dedent(inner.s) \o CodeClose)
    ELSE RenderPanic

\* main: HtmlTransformer.transform(&node) on the nodes parse returned
Transform ==
    /\ result.status = "ok"
    /\ output = NoOutput
    /\ LET r == transform(result.nodes)
       IN  output' = IF r.panic THEN [status |-> "panic"]
                     ELSE [status |-> "ok", html |-> r.s]
    /\ UNCHANGED <<tokens, current, stack, ret, result>>
    /\ UNCHANGED <<discarded, lexVars, fmtVars, callVars>>

\* The grammar of the language, as a recogniser of token sequences.  Each
\* operator yields the cursor after the phrase that starts at cursor i, or
\* -1 when no phrase of its kind starts there.
\*   document   := node* EndOfInput
\*   node       := String | tag
\*   tag        := Identifier attributes? '{' node* '}'
\*   attributes := '(' (attribute (',' attribute)*)? ')'
\*   attribute  := Identifier ':' literal
\*   literal    := Number range-suffix? | String | list
\*   list       := '[' (literal (',' literal)*)? ']'
\*   range-suffix := '..' Number?
TypeAt(ts, i) == IF i >= 0 /\ i < Len(ts) THEN ts[i + 1].type ELSE "none"

RECURSIVE GLiteral(_, _)
RECURSIVE GList(_, _)
RECURSIVE GListRest(_, _)
GLiteral(ts, i) ==
    CASE TypeAt(ts, i) = "Number" ->
           IF TypeAt(ts, i + 1) = "DoubleDot"
           THEN (IF TypeAt(ts, i + 2) = "Number" THEN i + 3 ELSE i + 2)
           ELSE i + 1
      [] TypeAt(ts, i) = "String" -> i + 1
      [] TypeAt(ts, i) = "LeftBracket" -> GList(ts, i)
      [] OTHER -> -1

GList(ts, i) ==
    IF TypeAt(ts, i) # "LeftBracket" THEN -1
    ELSE IF TypeAt(ts, i + 1) = "RightBracket" THEN i + 2
    ELSE LET j == GLiteral(ts, i + 1)
         IN  IF j < 0 THEN -1 ELSE GListRest(ts, j)

GListRest(ts, j) ==
    IF TypeAt(ts, j) = "RightBracket" THEN j + 1
    ELSE IF TypeAt(ts, j) # "Comma" THEN -1
    ELSE LET k == GLiteral(ts, j + 1)
         IN  IF k < 0 THEN -1 ELSE GListRest(ts, k)

GAttribute(ts, i) ==
    IF TypeAt(ts, i) = "Identifier" /\ TypeAt(ts, i + 1) = "Colon"
    THEN GLiteral(ts, i + 2)
    ELSE -1

RECURSIVE GAttributesRest(_, _)
GAttributesRest(ts, j) ==
    IF TypeAt(ts, j) = "RightParen" THEN j + 1
    ELSE IF TypeAt(ts, j) # "Comma" THEN -1
    ELSE LET k == GAttribute(ts, j + 1)
         IN  IF k < 0 THEN -1 ELSE GAttributesRest(ts, k)

GAttributes(ts, i) ==
    IF TypeAt(ts, i) # "LeftParen" THEN -1
    ELSE IF TypeAt(ts, i + 1) = "RightParen" THEN i + 2
    ELSE LET j == GAttribute(ts, i + 1)
         IN  IF j < 0 THEN -1 ELSE GAttributesRest(ts, j)

RECURSIVE GNode(_, _)
RECURSIVE GNodes(_, _, _)
RECURSIVE GTag(_, _)
GNode(ts, i) ==
    CASE TypeAt(ts, i) = "String" -> i + 1
      [] TypeAt(ts, i) = "Identifier" -> GTag(ts, i)
      [] OTHER -> -1

\* node* up to the closing token
GNodes(ts, i, closing) ==
    IF TypeAt(ts, i) = closing THEN i + 1
    ELSE LET j == GNode(ts, i)
         IN  IF j < 0 THEN -1 ELSE GNodes(ts, j, closing)

GTag(ts, i) ==
    LET j == IF TypeAt(ts, i + 1) = "LeftParen" THEN GAttributes(ts, i + 1)
             ELSE i + 1
    IN  IF j < 0 \/ TypeAt(ts, j) # "LeftBrace" THEN -1
        ELSE GNodes(ts, j + 1, "RightBrace")

Derivable(ts) == GNodes(ts, 0, "EOF") = Len(ts)

(***************************************************************************)
(* The sources the model runs on.                                          *)
(***************************************************************************)
SeqsUpTo(S, n) == UNION {[1..k -> S] : k \in 0..n}

\* every buffer of at most MaxSrcLen of these characters
CharAlphabet == {"a", "1", QUOTE, " ", NUL, "#", ".", "-"}
CharSources == SeqsUpTo(CharAlphabet, MaxSrcLen)

\* every run of at most MaxDigits of these digits, and the runs around
\* u32::MAX
DigitAlphabet == {"0", "9"}
NumSources ==
    SeqsUpTo(DigitAlphabet, MaxDigits)
    \cup {<<"4", "2", "9", "4", "9", "6", "7", "2", "9", "5">>,
          <<"4", "2", "9", "4", "9", "6", "7", "2", "9", "6">>,
          <<"4", "2", "9", "4", "9", "6", "7", "3", "0", "0">>,
          <<"0", "4", "2", "9", "4", "9", "6", "7", "2", "9", "5">>,
          <<"4", "2", "9", "4", "9", "6", "7", "2", "9">>,
          <<"1", "0", "0", "0", "0", "0">>,
          <<"4", "2", "9", "4", "9", "6", "7", "2", "9", "5", " ", "7">>}

\* lexemes joined by single spaces
RECURSIVE Join(_)
Join(ls) ==
    IF ls = <<>> THEN <<>>
    ELSE IF Len(ls) = 1 THEN ls[1]
    ELSE ls[1] \o <<" ">> \o Join(Tail(ls))

\* every sequence of at most MaxToks of these lexemes
Lexemes == {<<"a">>, <<QUOTE, "s", QUOTE>>, <<"1">>, <<"(">>, <<")">>,
            <<"[">>, <<"]">>, <<"{">>, <<"}">>, <<",">>, <<":">>,
            <<".", ".">>}
LexemeSources == {Join(ls) : ls \in SeqsUpTo(Lexemes, MaxToks)}

\* a tag whose attribute clause is any sequence of at most MaxFill of these
\* lexemes
AttrLexemes == {<<"x">>, <<":">>, <<"1">>, <<",">>, <<"[">>, <<"]">>,
                <<".", ".">>}
AttrSources ==
    {<<"a", "(">> \o Join(ls) \o <<")", "{", "}">> :
        ls \in SeqsUpTo(AttrLexemes, MaxFill)}

\* an attribute whose list is any sequence of at most MaxFill of these lexemes
ListLexemes == {<<"1">>, <<QUOTE, "s", QUOTE>>, <<",">>, <<"[">>, <<"]">>,
                <<".", ".">>}
ListSources ==
    {<<"a", "(", "x", ":", "[">> \o Join(ls) \o <<"]", ")", "{", "}">> :
        ls \in SeqsUpTo(ListLexemes, MaxFill)}

\* a tag whose body is any sequence of at most MaxFill of these lexemes
BodyLexemes == {<<"b">>, <<QUOTE, "s", QUOTE>>, <<"{">>, <<"}">>, <<"(">>,
                <<")">>}
BodySources ==
    {<<"a", "{">> \o Join(ls) \o <<"}">> :
        ls \in SeqsUpTo(BodyLexemes, MaxFill)}

Examples == {
    \* a(x: [1, "s"], y: 2) { b {} "t" }
    <<"a", "(", "x", ":", " ", "[", "1", ",", " ", QUOTE, "s", QUOTE, "]",
      ",", " ", "y", ":", " ", "2", ")", " ", "{", " ", "b", " ", "{", "}",
      " ", QUOTE, "t", QUOTE, " ", "}">>,
    \* a(x) {}
    <<"a", "(", "x", ")", " ", "{", "}">>,
    \* a(x:) {}
    <<"a", "(", "x", ":", ")", " ", "{", "}">>,
    \* a(, x: 1) {}
    <<"a", "(", ",", " ", "x", ":", " ", "1", ")", " ", "{", "}">>,
    \* a(x: [,1]) {}
    <<"a", "(", "x", ":", " ", "[", ",", "1", "]", ")", " ", "{", "}">>,
    \* a(x: [[1,]) {}
    <<"a", "(", "x", ":", " ", "[", "[", "1", ",", "]", ")", " ", "{", "}">>,
    \* div { "x" 
    <<"d", "i", "v", " ", "{", " ", QUOTE, "x", QUOTE, " ">>,
    \* a(x: 1) {
    <<"a", "(", "x", ":", " ", "1", ")", " ", "{">>,
    \* row(reversed: "true") {\n p { "first" }\n "second"\n}
    <<"r", "o", "w", "(", "r", "e", "v", "e", "r", "s", "e", "d", ":", " ",
      QUOTE, "t", "r", "u", "e", QUOTE, ")", " ", "{", LF, " ", "p", " ",
      "{", " ", QUOTE, "f", "i", "r", "s", "t", QUOTE, " ", "}", LF, " ",
      QUOTE, "s", "e", "c", "o", "n", "d", QUOTE, LF, "}">>,
    \* \np {"first"}\ndiv {"second"}\n"third"\n
    <<LF, "p", " ", "{", QUOTE, "f", "i", "r", "s", "t", QUOTE, "}", LF, "d",
      "i", "v", " ", "{", QUOTE, "s", "e", "c", "o", "n", "d", QUOTE, "}",
      LF, QUOTE, "t", "h", "i", "r", "d", QUOTE, LF>>,
    \* div { div {"item1"} div {"item2"} }
    <<"d", "i", "v", " ", "{", " ", "d", "i", "v", " ", "{", QUOTE, "i", "t",
      "e", "m", "1", QUOTE, "}", " ", "d", "i", "v", " ", "{", QUOTE, "i",
      "t", "e", "m", "2", QUOTE, "}", " ", "}">>,
    \* code-block(highlights: [1, 3..5], lang: "ts") {\n "\n   f {\n    r;\n   }\n "\n}\n 
    <<"c", "o", "d", "e", "-", "b", "l", "o", "c", "k", "(", "h", "i", "g",
      "h", "l", "i", "g", "h", "t", "s", ":", " ", "[", "1", ",", " ", "3",
      ".", ".", "5", "]", ",", " ", "l", "a", "n", "g", ":", " ", QUOTE, "t",
      "s", QUOTE, ")", " ", "{", LF, " ", QUOTE, LF, " ", " ", " ", "f", " ",
      "{", LF, " ", " ", " ", " ", "r", ";", LF, " ", " ", " ", "}", LF, " ",
      QUOTE, LF, "}", LF, " ">>,
    \* code-block { "  a\n b" "c" }
    <<"c", "o", "d", "e", "-", "b", "l", "o", "c", "k", " ", "{", " ", QUOTE,
      " ", " ", "a", LF, " ", "b", QUOTE, " ", QUOTE, "c", QUOTE, " ", "}">>,
    \* code-block { code-block { " a" } "\n" }
    <<"c", "o", "d", "e", "-", "b", "l", "o", "c", "k", " ", "{", " ", "c",
      "o", "d", "e", "-", "b", "l", "o", "c", "k", " ", "{", " ", QUOTE, " ",
      "a", QUOTE, " ", "}", " ", QUOTE, LF, QUOTE, " ", "}">>,
    \* "abc"
    <<QUOTE, "a", "b", "c", QUOTE>>,
    \* div {}
    <<"d", "i", "v", " ", "{", "}">>,
    \* a(x: [1, 1..3, [1, 1..3]]) {}
    <<"a", "(", "x", ":", " ", "[", "1", ",", " ", "1", ".", ".", "3", ",",
      " ", "[", "1", ",", " ", "1", ".", ".", "3", "]", "]", ")", " ", "{",
      "}">>,
    \* a(name: [1, 1..3], num: 123) {}
    <<"a", "(", "n", "a", "m", "e", ":", " ", "[", "1", ",", " ", "1", ".",
      ".", "3", "]", ",", " ", "n", "u", "m", ":", " ", "1", "2", "3", ")",
      " ", "{", "}">>,
    \* a(x: 1.., y: 2..3, z: [4..]) { b() {} }
    <<"a", "(", "x", ":", " ", "1", ".", ".", ",", " ", "y", ":", " ", "2",
      ".", ".", "3", ",", " ", "z", ":", " ", "[", "4", ".", ".", "]", ")",
      " ", "{", " ", "b", "(", ")", " ", "{", "}", " ", "}">>,
    \* a { b { c {} "s" } d {} }
    <<"a", " ", "{", " ", "b", " ", "{", " ", "c", " ", "{", "}", " ", QUOTE,
      "s", QUOTE, " ", "}", " ", "d", " ", "{", "}", " ", "}">>,
    \* a(x: [[], [1], ["s", 2]]) {}
    <<"a", "(", "x", ":", " ", "[", "[", "]", ",", " ", "[", "1", "]", ",",
      " ", "[", QUOTE, "s", QUOTE, ",", " ", "2", "]", "]", ")", " ", "{",
      "}">>,
    \* [1, 1..3, "string"]
    <<"[", "1", ",", " ", "1", ".", ".", "3", ",", " ", QUOTE, "s", "t", "r",
      "i", "n", "g", QUOTE, "]">>,
    \* 4294967295
    <<"4", "2", "9", "4", "9", "6", "7", "2", "9", "5">>,
    \* 4294967296
    <<"4", "2", "9", "4", "9", "6", "7", "2", "9", "6">>,
    \* a(x: 99999999999) {}
    <<"a", "(", "x", ":", " ", "9", "9", "9", "9", "9", "9", "9", "9", "9",
      "9", "9", ")", " ", "{", "}">>,
    \* "unclosed string
    <<QUOTE, "u", "n", "c", "l", "o", "s", "e", "d", " ", "s", "t", "r", "i",
      "n", "g">>,
    \* a { "x
    <<"a", " ", "{", " ", QUOTE, "x">>,
    \* #
    <<"#">>,
    \* a { # }
    <<"a", " ", "{", " ", "#", " ", "}">>,
    \* a_b
    <<"a", "_", "b">>,
    \* a\0b
    <<"a", NUL, "b">>,
    \* "x" \0 a(x) 
    <<QUOTE, "x", QUOTE, " ", NUL, " ", "a", "(", "x", ")", " ">>,
    \* a(x: 1 2) {}
    <<"a", "(", "x", ":", " ", "1", " ", "2", ")", " ", "{", "}">>,
    \* a(x: 1..2..3) {}
    <<"a", "(", "x", ":", " ", "1", ".", ".", "2", ".", ".", "3", ")", " ",
      "{", "}">>,
    \* a(x: [1 2]) {}
    <<"a", "(", "x", ":", " ", "[", "1", " ", "2", "]", ")", " ", "{", "}">>,
    \* a(x: 1,) {}
    <<"a", "(", "x", ":", " ", "1", ",", ")", " ", "{", "}">>,
    \* a(x) {
    <<"a", "(", "x", ")", " ", "{">>,
    \* a.b
    <<"a", ".", "b">>,
    \* js-code_block {}
    <<"j", "s", "-", "c", "o", "d", "e", "_", "b", "l", "o", "c", "k", " ",
      "{", "}">>
    }

\* documents cut off at every length: each production meets the end of input
Prefixes(s) == {SubSeq(s, 1, k) : k \in 0..Len(s)}

Documents == {
    \* a(x:[1,"s"],y:2..){b{}"t"}
    <<"a", "(", "x", ":", "[", "1", ",", QUOTE, "s", QUOTE, "]", ",", "y",
      ":", "2", ".", ".", ")", "{", "b", "{", "}", QUOTE, "t", QUOTE, "}">>,
    \* a(x:1..2,y:[[3..],4]){}
    <<"a", "(", "x", ":", "1", ".", ".", "2", ",", "y", ":", "[", "[", "3",
      ".", ".", "]", ",", "4", "]", ")", "{", "}">>,
    \* a(x:1){b(y:"s"){}}
    <<"a", "(", "x", ":", "1", ")", "{", "b", "(", "y", ":", QUOTE, "s",
      QUOTE, ")", "{", "}", "}">>
    }

TruncatedSources == UNION {Prefixes(d) : d \in Documents}

Sources ==
    LexemeSources \cup AttrSources \cup ListSources \cup BodySources
    \cup Examples \cup TruncatedSources

(***************************************************************************)
(* Specifications.  Spec: Parser::new().parse(source), then transform on   *)
(* the nodes.  SpecLex: Lexer::new(source).scan_tokens() alone.            *)
(* SpecDisplay (formatting a Literal) and SpecReuse (several parse calls   *)
(* on one Parser) follow the actions they add, further down.               *)
(***************************************************************************)
Fresh ==
    /\ lexCurrent = 0
    /\ scanned = <<>>
    /\ scanResult = Running
    /\ tokens = <<>>
    /\ current = 0
    /\ stack = <<>>
    /\ ret = NoRet
    /\ result = NoResult
    /\ output = NoOutput
    /\ discarded = FALSE

\* nothing is being formatted; the call under way is the first on its Parser
Idle ==
    /\ shown = LitString(<<>>)
    /\ displayed = NoOutput
    /\ calls = 1
    /\ firstSource = <<>>
    /\ firstResult = NoResult

Init == source \in Sources /\ Fresh /\ Idle

InitLex == source \in (CharSources \cup NumSources) /\ Fresh /\ Idle

Next ==
    \/ ScanPush \/ ScanFail \/ ScanPanic \/ ScanFinish
    \/ ParseBegin \/ ParseLexErr \/ ParseLoop \/ ParseNodeRet
    \/ Node \/ TagBegin \/ TagAttributesRet \/ TagBrace \/ TagChildren
    \/ TagChildRet
    \/ AttributesBegin \/ AttributesFirstRet \/ AttributesLoop
    \/ AttributesRestRet \/ AttributeBegin \/ AttributeListRet
    \/ ListBegin \/ ListFirstRet \/ ListLoop \/ ListRestRet \/ Literal
    \/ Transform

Spec == Init /\ [][Next]_vars

SpecLex == InitLex /\ [][NextLex]_vars

(***************************************************************************)
(* Claims about Lexer::scan_tokens, checked under SpecLex.                 *)
(***************************************************************************)
ScanDone == scanResult.status # "running"

EOFCount(toks) == Cardinality({i \in 1..Len(toks) : toks[i] = EOF})

\* C4: whenever scan_tokens returns Ok, the tokens hold exactly one EOF token
\* and it is the last element; no EOF token stands at an earlier index.
C4_OneTrailingEOF ==
    scanResult.status = "ok" =>
        /\ Len(scanResult.tokens) > 0
        /\ Last(scanResult.tokens) = EOF
        /\ EOFCount(scanResult.tokens) = 1

\* a digit run without its leading zeros (a run of zeros keeps the last one)
RECURSIVE StripZeros(_)
StripZeros(digs) ==
    IF Len(digs) > 1 /\ Head(digs) = "0" THEN StripZeros(Tail(digs)) ELSE digs

U32MaxDigits == <<"4", "2", "9", "4", "9", "6", "7", "2", "9", "5">>

\* of two digit runs of equal length, a is the greater number
RECURSIVE DigitsGreater(_, _)
DigitsGreater(a, b) ==
    IF a = <<>> THEN FALSE
    ELSE IF DigitVal(Head(a)) # DigitVal(Head(b))
    THEN DigitVal(Head(a)) > DigitVal(Head(b))
    ELSE DigitsGreater(Tail(a), Tail(b))

\* the value of the digit run exceeds 4294967295
ExceedsU32(digs) ==
    LET d == StripZeros(digs)
    IN  \/ Len(d) > Len(U32MaxDigits)
        \/ Len(d) = Len(U32MaxDigits) /\ DigitsGreater(d, U32MaxDigits)

\* the decimal digits of n, at least width of them
RECURSIVE DecimalOf(_, _)
DecimalOf(n, width) ==
    IF n < 10 /\ width <= 1 THEN <<CHOOSE c \in Digits : DigitVal(c) = n>>
    ELSE Append(DecimalOf(n \div 10, width - 1),
                CHOOSE c \in Digits : DigitVal(c) = n % 10)

\* the decimal digits of a u32
DecimalU32(v) ==
    IF v.hi = 0 THEN DecimalOf(v.lo, 1)
    ELSE DecimalOf(v.hi, 1) \o DecimalOf(v.lo, 5)

IsDigitRun(src) == src # <<>> /\ \A i \in 1..Len(src) : src[i] \in Digits

\* C8: on a source that is one run of digits, scan_tokens returns an error
\* value when the run exceeds 4294967295 (it does not panic), and otherwise
\* the single Number token with the value of the run.
C8_OverflowIsAnError ==
    (ScanDone /\ IsDigitRun(source)) =>
        IF ExceedsU32(source)
        THEN scanResult.status = "err"
        ELSE /\ scanResult.status = "ok"
             /\ Len(scanResult.tokens) = 2
             /\ scanResult.tokens[1].type = "Number"
             /\ DecimalU32(scanResult.tokens[1].num) = StripZeros(source)
             /\ scanResult.tokens[2] = EOF

\* C9: UnrecognizedCharacter carries the offending character and its 0-based
\* byte offset in the source: the byte at that offset is the character, and
\* it is the byte the cursor has just passed.
C9_PositionIsOffset ==
    (scanResult.status = "err"
        /\ scanResult.err.kind = "UnrecognizedCharacter") =>
        /\ scanResult.err.position < Len(source)
        /\ At(source, scanResult.err.position) = scanResult.err.character
        /\ scanResult.err.position = lexCurrent - 1

QuoteOffsets(src) == {i \in 0..(Len(src) - 1) : At(src, i) = QUOTE}
LastQuote(src) ==
    CHOOSE q \in QuoteOffsets(src) : \A r \in QuoteOffsets(src) : r <= q
\* quotes pair up from the left, so the last of an odd number of quotes opens
\* a string that nothing closes
OpenString(src) == Cardinality(QuoteOffsets(src)) % 2 = 1

\* C10: when the last double quote of the source, at offset q, opens a string
\* that nothing closes, scan_tokens fails with
\* UnclosedStringLiteral{start: q, end: len(source)}, unless it has failed
\* before reaching q; and it returns UnclosedStringLiteral in no other case.
C10_UnclosedString ==
    ScanDone =>
        IF OpenString(source)
        THEN \/ scanResult = [status |-> "err",
                              err |-> UnclosedStringLiteral(LastQuote(source),
                                                            Len(source))]
             \/ /\ scanResult.status \in {"err", "panic"}
                /\ lexCurrent <= LastQuote(source)
                /\ scanResult.status = "err" =>
                       scanResult.err.kind = "UnrecognizedCharacter"
        ELSE ~(scanResult.status = "err"
                 /\ scanResult.err.kind = "UnclosedStringLiteral")

\* C10 witness: the opening quote is the last byte, after an earlier token
C10_Witness ==
    /\ scanResult.status = "err"
    /\ scanResult.err.kind = "UnclosedStringLiteral"
    /\ scanResult.err.start = Len(source) - 1
    /\ scanResult.err.start > 0
    /\ Len(scanned) > 0

(***************************************************************************)
(* Claims about Parser::parse and HtmlTransformer::transform, checked      *)
(* under Spec.                                                             *)
(***************************************************************************)
ParseDone == result.status \in {"ok", "err"}

Front(s) == SubSeq(s, 1, Len(s) - 1)

\* the token sequence ends in its only EOF
OneTrailingEOF(toks) ==
    Len(toks) > 0 /\ Last(toks) = EOF /\ EOFCount(toks) = 1

\* C1: parse returns Ok only for sources whose token sequence is derivable
\* from the document production (stated for token sequences that end in their
\* only EOF).
C1_OkOnlyIfDerivable ==
    (result.status = "ok" /\ OneTrailingEOF(tokens)) => Derivable(tokens)

RECURSIVE Repeat(_, _)
Repeat(x, n) == IF n = 0 THEN <<>> ELSE <<x>> \o Repeat(x, n - 1)

\* the tokens are a document cut off inside a tag's body: some number of
\* closing braces before the EOF would complete it
UnclosedBody(toks) ==
    /\ OneTrailingEOF(toks)
    /\ \E k \in 1..Len(toks) :
           Derivable(Front(toks) \o Repeat(Tok("RightBrace"), k) \o <<EOF>>)

\* C2: when the tokens reach EOF inside a tag's body, parse fails with
\* ExpectedToken whose expected is RightBrace and whose got is EOF.
C2_ExpectedRightBrace ==
    (ParseDone /\ UnclosedBody(tokens)) =>
        /\ result.status = "err"
        /\ result.err.kind = "ExpectedToken"
        /\ result.err.expected = Tok("RightBrace")
        /\ result.err.got = EOF

\* C3: the first error aborts the whole parse: when a production has failed
\* after the cursor advanced past a token of it, parse does not return Ok (the
\* failure is not dropped with parsing going on from the advanced cursor).
C3_FirstErrorAborts == result.status = "ok" => ~discarded

\* the tokens of an AST, written back in source form; an empty attribute
\* list is written as no clause at all
RECURSIVE UnparseLiteral(_)
RECURSIVE UnparseLiterals(_)
UnparseLiteral(l) ==
    CASE l.lit = "Number" -> <<NumberTok(l.num)>>
      [] l.lit = "String" -> <<StringTok(l.text)>>
      [] l.lit = "Range" ->
           <<NumberTok(l.start), Tok("DoubleDot")>>
           \o (IF l.end.some THEN <<NumberTok(l.end.val)>> ELSE <<>>)
      [] l.lit = "List" ->
           <<Tok("LeftBracket")>> \o UnparseLiterals(l.items)
           \o <<Tok("RightBracket")>>

UnparseLiterals(ls) ==
    IF ls = <<>> THEN <<>>
    ELSE IF Len(ls) = 1 THEN UnparseLiteral(ls[1])
    ELSE UnparseLiteral(ls[1]) \o <<Tok("Comma")>> \o UnparseLiterals(Tail(ls))

UnparseAttribute(a) ==
    <<Identifier(a.name), Tok("Colon")>> \o UnparseLiteral(a.value)

RECURSIVE UnparseAttributes(_)
UnparseAttributes(as) ==
    IF as = <<>> THEN <<>>
    ELSE IF Len(as) = 1 THEN UnparseAttribute(as[1])
    ELSE UnparseAttribute(as[1]) \o <<Tok("Comma")>>
         \o UnparseAttributes(Tail(as))

RECURSIVE UnparseNode(_)
RECURSIVE UnparseNodes(_)
UnparseNode(n) ==
    IF n.node = "String" THEN <<StringTok(n.text)>>
    ELSE <<Identifier(n.name)>>
         \o (IF n.attributes = <<>> THEN <<>>
             ELSE <<Tok("LeftParen")>> \o UnparseAttributes(n.attributes)
                  \o <<Tok("RightParen")>>)
         \o <<Tok("LeftBrace")>> \o UnparseNodes(n.children)
         \o <<Tok("RightBrace")>>

UnparseNodes(ns) ==
    IF ns = <<>> THEN <<>> ELSE UnparseNode(ns[1]) \o UnparseNodes(Tail(ns))

\* a token sequence without its empty attribute clauses '(' ')'
RECURSIVE DropEmptyClauses(_)
DropEmptyClauses(toks) ==
    IF toks = <<>> THEN <<>>
    ELSE IF /\ Len(toks) >= 2
            /\ toks[1] = Tok("LeftParen")
            /\ toks[2] = Tok("RightParen")
    THEN DropEmptyClauses(Tail(Tail(toks)))
    ELSE <<toks[1]>> \o DropEmptyClauses(Tail(toks))

Chars_row == <<"r", "o", "w">>
Chars_reversed == <<"r", "e", "v", "e", "r", "s", "e", "d">>
Chars_true == <<"t", "r", "u", "e">>
Chars_first == <<"f", "i", "r", "s", "t">>
Chars_second == <<"s", "e", "c", "o", "n", "d">>

\* row(reversed: "true") { p { "first" } "second" }
RowSource ==
    <<"r", "o", "w", "(", "r", "e", "v", "e", "r", "s", "e", "d", ":", " ",
      QUOTE, "t", "r", "u", "e", QUOTE, ")", " ", "{", LF, " ", "p", " ", "{",
      " ", QUOTE, "f", "i", "r", "s", "t", QUOTE, " ", "}", LF, " ", QUOTE,
      "s", "e", "c", "o", "n", "d", QUOTE, LF, "}">>

RowAst ==
    <<NodeTag(Chars_row,
              <<Attribute(Chars_reversed, LitString(Chars_true))>>,
              <<NodeTag(<<"p">>, <<>>, <<NodeString(Chars_first)>>),
                NodeString(Chars_second)>>)>>

\* C5: for every derivable token sequence parse succeeds, and the AST holds
\* the tokens in source order with nothing dropped or duplicated: written
\* back, it is the token sequence (empty attribute clauses aside); the row
\* example yields the tag row with one attribute and its two children.
C5_DerivableParsesInOrder ==
    /\ (ParseDone /\ Derivable(tokens)) =>
           /\ result.status = "ok"
           /\ UnparseNodes(result.nodes) = DropEmptyClauses(Front(tokens))
    /\ (ParseDone /\ source = RowSource) =>
           (result.status = "ok" /\ result.nodes = RowAst)

\* C5 witness: a parsed tag with attributes, a list of two items among them,
\* and two children
C5_Witness ==
    /\ result.status = "ok"
    /\ \E i \in 1..Len(result.nodes) :
           /\ result.nodes[i].node = "Tag"
           /\ Len(result.nodes[i].children) >= 2
           /\ Len(result.nodes[i].attributes) >= 2
           /\ \E j \in 1..Len(result.nodes[i].attributes) :
                  /\ result.nodes[i].attributes[j].value.lit = "List"
                  /\ Len(result.nodes[i].attributes[j].value.items) >= 2

\* what a Number at cursor p stands for, by the one token after it: the
\* literal and how far the cursor moves
NumberLiteralAt(toks, p) ==
    LET n == TokenAt(toks, p).num
    IN  IF TypeAt(toks, p + 1) = "DoubleDot"
        THEN IF TypeAt(toks, p + 2) = "Number"
             THEN [val |-> LitRange(n, Some(TokenAt(toks, p + 2).num)),
                   cur |-> p + 3]
             ELSE [val |-> LitRange(n, None), cur |-> p + 2]
        ELSE [val |-> LitNumber(n), cur |-> p + 1]

\* literal() is about to run on a Number
LiteralOnNumber ==
    AtPc("literal", "begin") /\ TypeAt(tokens, current) = "Number"

\* attribute() is about to run on Identifier ':' Number
AttributeOnNumber ==
    /\ AtPc("attribute", "begin")
    /\ TypeAt(tokens, current) = "Identifier"
    /\ TypeAt(tokens, current + 1) = "Colon"
    /\ TypeAt(tokens, current + 2) = "Number"

\* C6: in literal position a Number n becomes Range{n, Some(m)} with the
\* cursor advanced by 3 when '..' and a Number m follow, Range{n, None} with
\* the cursor advanced by 2 when '..' and no Number follow, and Number(n)
\* with the cursor advanced by 1 when no '..' follows; in literal() and in
\* the value position of attribute() alike.
C6_NumberOrRange ==
    [][/\ LiteralOnNumber =>
            /\ ret'.kind = "ok"
            /\ ret'.val = NumberLiteralAt(tokens, current).val
            /\ current' = NumberLiteralAt(tokens, current).cur
       /\ AttributeOnNumber =>
            /\ ret'.kind = "ok"
            /\ ret'.val = Attribute(TokenAt(tokens, current).text,
                                    NumberLiteralAt(tokens, current + 2).val)
            /\ current' = NumberLiteralAt(tokens, current + 2).cur]_vars

\* C6 witness: literal() has returned an open range and left the token after
\* the '..' unconsumed
C6_Witness ==
    /\ ret.kind = "ok"
    /\ stack # <<>>
    /\ Top.fn = "list"
    /\ ret.val.lit = "Range"
    /\ ~ret.val.end.some
    /\ current = ret.entry + 2
    /\ TypeAt(tokens, current) = "RightBracket"

\* the generic element rule: <name>, the children in order, </name>
RECURSIVE GenericNode(_)
RECURSIVE GenericNodes(_)
GenericNode(n) ==
    IF n.node = "String" THEN n.text
    ELSE <<"<">> \o n.name \o <<">">> \o GenericNodes(n.children)
         \o <<"<", "/">> \o n.name \o <<">">>

GenericNodes(ns) ==
    IF ns = <<>> THEN <<>> ELSE GenericNode(ns[1]) \o GenericNodes(Tail(ns))

RECURSIVE HasCodeBlock(_)
HasCodeBlock(ns) ==
    \E i \in 1..Len(ns) :
        /\ ns[i].node = "Tag"
        /\ (ns[i].name = CodeBlock \/ HasCodeBlock(ns[i].children))

\* C7: transform renders an AST without code-block tags by the generic
\* element rule, strings verbatim.
C7_GenericElementRule ==
    (output.status # "none" /\ ~HasCodeBlock(result.nodes)) =>
        /\ output.status = "ok"
        /\ output.html = GenericNodes(result.nodes)

(***************************************************************************)
(* impl Display for Literal (src/src/ast.rs).  fmt yields the text written *)
(* to the formatter, or a panic.                                           *)
(***************************************************************************)
\* the bound of `for l in 0..ls.len() - 1`.  The subtraction is on usize:
\* for an empty list it panics where overflow is checked and wraps to
\* usize::MAX elsewhere, and then ls[0] is read out of bounds; a panic
\* either way.
ListLoopPanics(ls) == Len(ls) = 0

RECURSIVE fmt(_)
fmt(l) ==
    CASE l.lit = "Number" -> Rendered(DecimalU32(l.num))
      [] l.lit = "String" -> Rendered(l.text)
      [] l.lit = "Range" ->
           LET end == IF l.end.some THEN fmt(LitNumber(l.end.val))
                      ELSE fmt(LitString(<<>>))
           IN  Rendered(DecimalU32(l.start) \o <<".", ".">> \o end.s)
      [] l.lit = "List" ->
           LET ls == l.items
               n == Len(ls)
               parts == [i \in 1..n |-> fmt(ls[i])]
           IN  IF ListLoopPanics(ls) THEN RenderPanic
               ELSE IF \E i \in 1..n : parts[i].panic THEN RenderPanic
               ELSE Rendered(<<"[">>
                             \o Concat([i \in 1..(n - 1) |->
                                           parts[i].s \o <<",">>])
                             \o parts[n].s
                             \o <<"]">>)

\* format!("{}", shown) or shown.to_string()
Display ==
    /\ displayed = NoOutput
    /\ LET r == fmt(shown)
       IN  displayed' = IF r.panic THEN [status |-> "panic"]
                        ELSE [status |-> "ok", text |-> r.s]
    /\ UNCHANGED <<shown, lexVars, parseVars, callVars>>

\* The literals formatted: numbers, strings, ranges, and lists of up to
\* MaxListLen of them or of lists of them.
MaxListLen == 2

NumberValues == {U32(0, 0), U32(0, 7), U32(1, 5), U32(U32MaxHi, U32MaxLo)}
Atoms ==
    {LitNumber(n) : n \in NumberValues}
    \cup {LitString(<<>>), LitString(<<"s">>), LitString(<<"a", ",", "b">>)}
    \cup {LitRange(U32(0, 3), None), LitRange(U32(0, 3), Some(U32(0, 5))),
          LitRange(U32(0, 0), Some(U32(U32MaxHi, U32MaxLo)))}
InnerLists ==
    {LitList(ls) : ls \in SeqsUpTo({LitNumber(U32(0, 1)), LitString(<<"s">>)},
                                   MaxListLen)}
Literals ==
    Atoms \cup {LitList(ls) : ls \in SeqsUpTo(Atoms \cup InnerLists, MaxListLen)}

InitDisplay ==
    /\ source = <<>>
    /\ Fresh
    /\ shown \in Literals
    /\ displayed = NoOutput
    /\ calls = 0
    /\ firstSource = <<>>
    /\ firstResult = NoResult

NextDisplay == Display

SpecDisplay == InitDisplay /\ [][NextDisplay]_vars

(***************************************************************************)
(* Claims about Display for Literal, checked under SpecDisplay.            *)
(***************************************************************************)
\* the texts joined by sep
RECURSIVE JoinWith(_, _)
JoinWith(ss, sep) ==
    IF ss = <<>> THEN <<>>
    ELSE IF Len(ss) = 1 THEN ss[1]
    ELSE ss[1] \o sep \o JoinWith(Tail(ss), sep)

\* the rendering the specification gives a literal
RECURSIVE Rendering(_)
Rendering(l) ==
    CASE l.lit = "Number" -> DecimalU32(l.num)
      [] l.lit = "String" -> l.text
      [] l.lit = "Range" ->
           DecimalU32(l.start) \o <<".", ".">>
           \o (IF l.end.some THEN DecimalU32(l.end.val) ELSE <<>>)
      [] l.lit = "List" ->
           <<"[">>
           \o JoinWith([i \in 1..Len(l.items) |-> Rendering(l.items[i])],
                       <<",">>)
           \o <<"]">>

\* C11: formatting a Literal never panics and writes '[' elements joined by
\* ',' ']' for a List of any length ("[]" for the empty one), start..end
\* for a Range with an end and start.. for one without.
C11_DisplayOfLiteral ==
    displayed.status # "none" =>
        /\ displayed.status = "ok"
        /\ displayed.text = Rendering(shown)

\* what does hold: every literal with no empty list in it is rendered so
RECURSIVE HasEmptyList(_)
HasEmptyList(l) ==
    /\ l.lit = "List"
    /\ \/ l.items = <<>>
       \/ \E i \in 1..Len(l.items) : HasEmptyList(l.items[i])

DisplayOfNonEmpty ==
    displayed.status # "none" =>
        IF HasEmptyList(shown) THEN displayed.status = "panic"
        ELSE /\ displayed.status = "ok"
             /\ displayed.text = Rendering(shown)

(***************************************************************************)
(* Several Parser::parse calls on one Parser value (src/src/parser.rs).    *)
(* parse makes a new Lexer and assigns self.tokens; it assigns             *)
(* self.current nowhere, which only Parser::new sets to 0.                 *)
(***************************************************************************)
MaxCalls == 3

ReuseSources == {
    <<>>,
    <<QUOTE, "s", QUOTE>>,
    <<"a", "{", "}">>,
    <<"a", "{", "}", "b", "{", "}">>,
    <<"a", "{">>,
    <<"#">>,
    <<"a", "(", "x", ")", "{", "}">>,
    <<"a", "(", "x", ":", "[", "1", ",", QUOTE, "s", QUOTE, "]", ",",
      "y", ":", "2", ".", ".", ")", "{", "b", "{", "}", QUOTE, "t", QUOTE,
      "}">>,
    <<"4", "2", "9", "4", "9", "6", "7", "2", "9", "6">>}

\* the next parse(source) call on the Parser, after the previous one returned:
\* a new Lexer on the new source; self.tokens and self.current are as the
\* previous call left them
ParseAgain ==
    /\ result.status \in {"ok", "err"}
    /\ calls < MaxCalls
    /\ source' \in ReuseSources
    /\ lexCurrent' = 0
    /\ scanned' = <<>>
    /\ scanResult' = Running
    /\ stack' = <<>>
    /\ ret' = NoRet
    /\ result' = NoResult
    /\ discarded' = FALSE
    /\ calls' = calls + 1
    /\ firstSource' = IF calls = 1 THEN source ELSE firstSource
    /\ firstResult' = IF calls = 1 THEN result ELSE firstResult
    /\ UNCHANGED <<tokens, current, output, fmtVars>>

InitReuse == source \in ReuseSources /\ Fresh /\ Idle

NextReuse ==
    \/ ScanPush \/ ScanFail \/ ScanPanic \/ ScanFinish
    \/ ParseBegin \/ ParseLexErr \/ ParseLoop \/ ParseNodeRet
    \/ Node \/ TagBegin \/ TagAttributesRet \/ TagBrace \/ TagChildren
    \/ TagChildRet
    \/ AttributesBegin \/ AttributesFirstRet \/ AttributesLoop
    \/ AttributesRestRet \/ AttributeBegin \/ AttributeListRet
    \/ ListBegin \/ ListFirstRet \/ ListLoop \/ ListRestRet \/ Literal
    \/ ParseAgain

SpecReuse == InitReuse /\ [][NextReuse]_vars

(***************************************************************************)
(* Claims about repeated parse calls, checked under SpecReuse.             *)
(***************************************************************************)
\* the token index at which the call under way entered its node loop
StartIndex == stack[1].entry

\* C12: no state is carried from one parse call to the next on the same
\* Parser: every call starts at token index 0 of its own tokens, none
\* panics on an index a previous call left, and a call on the source of
\* the first call returns what the first call (a fresh Parser) returned.
C12_NoStateAcrossCalls ==
    /\ stack # <<>> => StartIndex = 0
    /\ calls > 1 => result.status # "panic"
    /\ (ParseDone /\ calls > 1 /\ source = firstSource) =>
           result = firstResult

\* the three parts of C12 taken apart; each fails on its own
ReuseStartsPastZero == stack # <<>> /\ calls > 1 => StartIndex = 0
ReusePanics == calls > 1 => result.status # "panic"
ReuseReturnsOther ==
    (ParseDone /\ calls > 1 /\ source = firstSource) => result = firstResult

(***************************************************************************)
(* Claims about the token cursor of a fresh Parser, checked under Spec.    *)
(***************************************************************************)
\* C13: in a parse on a fresh Parser whose scan succeeded the cursor is an
\* index of tokens in every state, so at every read of tokens[current];
\* where peek_next is about to be called current + 1 is an index too (in
\* attribute() the call comes after the name and the ':' are passed); the
\* cursor never passes the final EOF and no parse panics on an index.
C13_CursorInBounds ==
    tokens # <<>> =>
        /\ result # Panicked
        /\ InBounds(tokens, current)
        /\ LiteralOnNumber => InBounds(tokens, current + 1)
        /\ AttributeOnNumber => InBounds(tokens, current + 3)

\* C13 witness: a parse has ended with the cursor on the final EOF, after
\* peek_next read that EOF behind a Number
C13_Witness ==
    /\ ParseDone
    /\ current = Len(tokens) - 1
    /\ TypeAt(tokens, current) = "EOF"
    /\ TypeAt(tokens, current - 1) = "Number"

(***************************************************************************)
(* Claims about the termination of Parser::parse, checked under Spec.      *)
(***************************************************************************)
\* an iteration of the loop of scan_tokens moves the lexer cursor forward
ScanAdvances ==
    [][(scanResult = Running /\ ~is_at_end(source, lexCurrent)) =>
           lexCurrent' > lexCurrent]_vars

\* the body of a parser loop has returned to the loop: node() to the loop
\* of parse or of tag, attribute() or literal() to a comma loop
LoopBodyReturned ==
    /\ result = NoResult
    /\ stack # <<>>
    /\ ret # NoRet
    /\ <<Top.fn, Top.pc>> \in {<<"parse", "node">>, <<"tag", "child">>,
                               <<"attributes", "rest">>, <<"list", "rest">>}

\* the cursor at the test that began the iteration (a comma loop passes its
\* comma before the call)
IterationStart == IF Top.pc = "rest" THEN ret.entry - 1 ELSE ret.entry

\* an iteration of a parser loop ends with the cursor moved forward and the
\* loop going on, or leaves the production with an error
LoopsAdvance ==
    [][LoopBodyReturned =>
           IF ret.kind = "ok"
           THEN /\ current > IterationStart
                /\ current' = current
                /\ result' = NoResult
                /\ Len(stack') = Len(stack)
           ELSE \/ ret'.kind = "err" /\ Len(stack') < Len(stack)
                \/ result'.status = "err"]_vars

\* no run takes steps for ever
NoEndlessRun == <>[][FALSE]_vars

\* an iteration of scan_tokens is under way: scan_token returns or panics
Scanning == scanResult = Running /\ ~is_at_end(source, lexCurrent)

\* a run that can take no further step has returned Ok or Err
EndsInOkOrErr == [](ParseDone \/ Scanning \/ ENABLED Next)

\* the run is over otherwise than by Ok or Err: a panic unwinds the thread
RunPanicked == scanResult.status = "panic" \/ result = Panicked

\* C14: parse terminates on every source: each iteration of the loop of
\* scan_tokens moves the lexer cursor forward, each iteration of the node
\* loop, the children loop and the comma loops moves the token cursor
\* forward or leaves with an error, and the run ends, in Ok or Err.
C14_Terminates ==
    ScanAdvances /\ LoopsAdvance /\ NoEndlessRun /\ EndsInOkOrErr

\* what does hold: a run that can take no further step has returned Ok or
\* Err or has panicked in number()
EndsOrPanics == [](ParseDone \/ RunPanicked \/ Scanning \/ ENABLED Next)

====
